---- MODULE Spec2Model ----
(***************************************************************************)
(* The KNN imputation engine of the Airbnb cleaning notebook: KNN_predict, *)
(* KNN_fill and the rounding cell.  A data frame is a sequence of rows,    *)
(* each row a record [idx, v] of its index label and its cells.  A cell is *)
(* a float64 held in fixed point (units of 1/Scale), or NaN.               *)
(***************************************************************************)
EXTENDS Integers, Sequences, FiniteSets, TLC

\* ---------------------------------------------------------------- bounds
MaxMissing == 2      \* at most this many rows of the input hold a NaN
MaxSeed == 2         \* the seeds 1..MaxSeed of the random generator
SmallPool == 2       \* a pool too small for a test split
BigPool == 18        \* a pool on which all seven candidates can be fit

\* ------------------------------------------------------- representation
Cols == <<"a", "b", "z">>
ColSet == {Cols[i] : i \in 1..Len(Cols)}

NaN == -1
Scale == 420
Unit == Scale \div 4
RngMod == 64

isnull(x) == x = NaN

\* the candidate neighbour counts, range(1, 15, 2)
Grid == <<1, 3, 5, 7, 9, 11, 13>>
\* the repetitions, range(10)
Reps == 10

VARIABLES
  pc,               \* where the run is
  df,               \* the input frame of KNN_fill (never written)
  missing_columns,  \* the input list of column names
  dtype,            \* the dtype of each column of df
  rng,              \* the state of the global random generator
  tie_order,        \* how the neighbour search orders equidistant rows
  df_missing, df_filled, test_ind, best_ks,
  ci,               \* how many columns of missing_columns are done
  temp_df, rep, RSS, scores, best_k,
  df_final,         \* the value KNN_fill returned
  listings_clean,   \* the notebook's cleaned frame
  err               \* the exception that ended the run, "" if none

vars == <<pc, df, missing_columns, dtype, rng, tie_order, df_missing, df_filled, test_ind,
          best_ks, ci, temp_df, rep, RSS, scores, best_k, df_final,
          listings_clean, err>>

\* ------------------------------------------------------------- helpers
RECURSIVE SumSeq(_)
SumSeq(s) == IF s = <<>> THEN 0 ELSE Head(s) + SumSeq(Tail(s))

Column(f, c) == [i \in 1..Len(f) |-> f[i].v[c]]

SetColumn(f, c, vals) ==
  [i \in 1..Len(f) |-> [f[i] EXCEPT !.v[c] = vals[i]]]

\* all() where the code has any()
RowAllNull(r) == \A c \in ColSet : isnull(r.v[c])

RowHasNull(r) == \E c \in ColSet : isnull(r.v[c])

\* Series.median(): NaN is skipped; NaN if nothing is left
\* (the mean of the two middle cells is cut to the fixed-point grid; it is
\* exact for the observed cells of a column that still holds a NaN)
median(s) ==
  LET obs == SortSeq(SelectSeq(s, LAMBDA x : ~isnull(x)), <)
      n == Len(obs)
  IN IF n = 0 THEN NaN
     ELSE IF n % 2 = 1 THEN obs[(n + 1) \div 2]
     ELSE (obs[n \div 2] + obs[n \div 2 + 1]) \div 2

\* Series.fillna(value, inplace = True)
fillna(f, c, value) ==
  SetColumn(f, c, [i \in 1..Len(f) |->
                     IF isnull(f[i].v[c]) THEN value ELSE f[i].v[c]])

\* the fill without its test c != column
RECURSIVE FillFrom_every(_, _, _, _)
FillFrom_every(f, column, mc, i) ==
  IF i > Len(mc) THEN f
  ELSE FillFrom_every(fillna(f, mc[i], median(Column(f, mc[i]))), column, mc, i + 1)

\* the inner loop over c of the placeholder fill, from position i on
RECURSIVE FillFrom(_, _, _, _)
FillFrom(f, column, mc, i) ==
  IF i > Len(mc) THEN f
  ELSE IF mc[i] # column
       THEN FillFrom(fillna(f, mc[i], median(Column(f, mc[i]))), column, mc, i + 1)
       ELSE FillFrom(f, column, mc, i + 1)

PlaceholderFilled(f, column, mc) == FillFrom(f, column, mc, 1)

\* DataFrame.sample(frac = 1) under generator state r: a rotation of the
\* rows, reversed for every other state
sample(f, r) ==
  LET n == Len(f)
      off == IF n = 0 THEN 0 ELSE r % n
      rot == [i \in 1..n |-> f[((i - 1 + off) % n) + 1]]
  IN IF (r \div 2) % 2 = 1 THEN [i \in 1..n |-> rot[n + 1 - i]] ELSE rot

NextRng(r) == (5 * r + 3) % RngMod

\* the test share rounded up
TestInd_ceil(n) == (3 * n + 9) \div 10

\* int(0.3 * len(df_filled.index))
TestInd(n) == (3 * n) \div 10

\* ------------------------------------------------ the neighbour models
Features(column) == SelectSeq(Cols, LAMBDA c : c # column)

\* the squared Euclidean distance of two rows over the feature columns fs
RECURSIVE Dist2(_, _, _)
Dist2(x, r, fs) ==
  IF fs = <<>> THEN 0
  ELSE LET d == x.v[Head(fs)] - r.v[Head(fs)]
       IN d * d + Dist2(x, r, Tail(fs))

\* the k rows of train nearest to x, nearest first; rows at the same distance
\* come in the order of train or in the reverse order, as the library's search
\* happens to leave them
Neighbours(train, x, column, k) ==
  LET n == Len(train)
      fs == Features(column)
      tie(j) == IF tie_order = "first" THEN j ELSE n + 1 - j
      keys == [j \in 1..n |-> Dist2(x, train[j], fs) * (n + 1) + tie(j)]
      sorted == SortSeq(keys, <)
  IN [i \in 1..k |-> tie(sorted[i] % (n + 1))]

\* KNeighborsClassifier.predict: the most frequent class of the neighbours,
\* the smallest such class on a tie
Mode(ys) ==
  LET cls == {ys[i] : i \in 1..Len(ys)}
      cnt(c) == Cardinality({i \in 1..Len(ys) : ys[i] = c})
  IN CHOOSE c \in cls : \A d \in cls : cnt(c) > cnt(d) \/ (cnt(c) = cnt(d) /\ c <= d)

\* knn.fit(X_filled, y); knn.predict(X_missing): one <<numerator, denominator>>
\* per row of tmp
knn_predict(tmp, train, column, k, kind) ==
  [i \in 1..Len(tmp) |->
     LET nb == Neighbours(train, tmp[i], column, k)
         ys == [j \in 1..k |-> train[nb[j]].v[column]]
     IN IF kind = "float64" THEN <<SumSeq(ys), k>> ELSE <<Mode(ys), 1>>]

OneClass(f, c) == Len(f) > 0 /\ \A i \in 1..Len(f) : f[i].v[c] = f[1].v[c]

\* a fit that refuses a categorical target of one class
knn_error_one_class(tmp, train, column, k) ==
  IF Len(train) = 0 THEN "fit: 0 samples"
  ELSE IF dtype[column] = "int64" /\ OneClass(train, column) THEN "fit: one class"
  ELSE IF Len(tmp) = 0 THEN "predict: 0 samples"
  ELSE IF \E i \in 1..Len(tmp) : \E c \in ColSet \ {column} : isnull(tmp[i].v[c])
       THEN "predict: NaN"
  ELSE IF k > Len(train) \/ k < 1 THEN "predict: n_neighbors"
  ELSE ""

\* the exception knn.fit / knn.predict raises, "" if none
knn_error(tmp, train, column, k) ==
  IF Len(train) = 0 THEN "fit: 0 samples"
  ELSE IF Len(tmp) = 0 THEN "predict: 0 samples"
  ELSE IF \E i \in 1..Len(tmp) : \E c \in ColSet \ {column} : isnull(tmp[i].v[c])
       THEN "predict: NaN"
  ELSE IF k > Len(train) \/ k < 1 THEN "predict: n_neighbors"
  ELSE ""

\* the prediction as a cell
ToCell(q) == q[1] \div q[2]

\* the copy returned without the predictions assigned
KNN_predict_unassigned(miss, tmp, filled, column, k, kind) == miss

\* the predictions assigned to a copy of the placeholder-filled frame
KNN_predict_into_temp(miss, tmp, filled, column, k, kind) ==
  LET p == knn_predict(tmp, filled, column, k, kind)
  IN SetColumn(tmp, column, [i \in 1..Len(tmp) |-> LET q == p[i] IN ToCell(q)])

\* KNN_predict: a copy of miss whose column holds the predictions
KNN_predict(miss, tmp, filled, column, k, kind) ==
  LET p == knn_predict(tmp, filled, column, k, kind)
  IN SetColumn(miss, column, [i \in 1..Len(miss) |-> LET q == p[i] IN ToCell(q)])

\* ((df_pred[column] - df_test[column])**2).mean(), as <<numerator, denominator>>
\* in units of Unit^2 / len(df_test)
MSE(p, test, column) ==
  LET sq(i) == LET q == p[i]
                   e == (q[1] - q[2] * test[i].v[column]) \div Unit
               IN e * e
      den == LET q == p[1] IN q[2] * q[2]
  IN <<SumSeq([i \in 1..Len(test) |-> sq(i)]), den>>

\* Metrics.accuracy_score, in units of 1 / len(df_test)
accuracy_score(p, test, column) ==
  Cardinality({i \in 1..Len(test) : LET q == p[i] IN q[1] = test[i].v[column]})

\* the candidate k of the first minimum, less one, where the code takes its position
argmin_value(s) ==
  Grid[(CHOOSE i \in 1..Len(s) :
          /\ \A j \in 1..Len(s) : s[i][1] * s[j][2] <= s[j][1] * s[i][2]
          /\ \A j \in 1..(i - 1) : s[j][1] * s[i][2] > s[i][1] * s[j][2])] - 1

\* np.argmin over <<numerator, denominator>> pairs: the first minimum, 0-based
argmin(s) ==
  (CHOOSE i \in 1..Len(s) :
     /\ \A j \in 1..Len(s) : s[i][1] * s[j][2] <= s[j][1] * s[i][2]
     /\ \A j \in 1..(i - 1) : s[j][1] * s[i][2] > s[i][1] * s[j][2]) - 1

\* np.argmax: the first maximum, 0-based
argmax(s) ==
  (CHOOSE i \in 1..Len(s) :
     /\ \A j \in 1..Len(s) : s[i] >= s[j]
     /\ \A j \in 1..(i - 1) : s[j] < s[i]) - 1

\* int(np.mean(best_ks))
MeanInt(s) == SumSeq(s) \div Len(s)

\* the concatenation returned unsorted
sort_index_skipped(f) == f

\* DataFrame.sort_index()
sort_index(f) ==
  LET keys == SortSeq([i \in 1..Len(f) |-> f[i].idx], <)
  IN [i \in 1..Len(f) |-> CHOOSE r \in {f[j] : j \in 1..Len(f)} : r.idx = keys[i]]

\* Series.round(1): to the nearest tenth
round_one_decimal(x) ==
  IF isnull(x) THEN x
  ELSE LET t == Scale \div 10
       IN IF 2 * (x % t) < t THEN (x \div t) * t ELSE (x \div t + 1) * t

\* Series.round(): to the nearest integer, halves to the even one
round(x) ==
  IF isnull(x) THEN x
  ELSE LET q == x \div Scale
           r == x % Scale
       IN IF 2 * r < Scale THEN q * Scale
          ELSE IF 2 * r > Scale THEN (q + 1) * Scale
          ELSE IF q % 2 = 0 THEN q * Scale ELSE (q + 1) * Scale

RoundColumn(f, c) == SetColumn(f, c, [i \in 1..Len(f) |-> round(f[i].v[c])])

\* the rounding cell looping over every column
RECURSIVE RoundFrom_every(_, _, _)
RoundFrom_every(f, mc, i) ==
  IF i > Len(Cols) THEN f ELSE RoundFrom_every(RoundColumn(f, Cols[i]), mc, i + 1)

RECURSIVE RoundFrom(_, _, _)
RoundFrom(f, mc, i) ==
  IF i > Len(mc) THEN f ELSE RoundFrom(RoundColumn(f, mc[i]), mc, i + 1)

\* ------------------------------------------------------------ the inputs
\* a fully observed row: counts in a and b, a half-integer reading in z
PoolRow(j, classes) ==
  [a |-> ((j * j) % 3) * Scale,
   b |-> ((j \div 3) % classes) * Scale,
   z |-> (j % 4) * (Scale \div 2)]

\* the rows with a NaN: each leaves out the cells of one set of columns
Masks == <<{"a"}, {"b"}, {"a", "b"}, {"z"}, {"a", "z"}>>

MissingRow(m) ==
  [c \in ColSet |->
     IF c \in Masks[m] THEN NaN
     ELSE IF c = "z" THEN m * (Scale \div 2) ELSE (m % 3) * Scale]

\* the frame: NaN rows and pool rows alternate, labelled 1, 2, ... in order
RECURSIVE Interleave(_, _)
Interleave(ms, ps) ==
  IF ms = <<>> THEN ps
  ELSE IF ps = <<>> THEN ms
  ELSE <<Head(ms), Head(ps)>> \o Interleave(Tail(ms), Tail(ps))

Frame(n, classes, chosen) ==
  LET ms == SelectSeq([m \in 1..Len(Masks) |-> m], LAMBDA m : m \in chosen)
      rows == Interleave([i \in 1..Len(ms) |-> MissingRow(ms[i])],
                         [j \in 1..n |-> PoolRow(j, classes)])
  IN [i \in 1..Len(rows) |-> [idx |-> i, v |-> rows[i]]]

MissingColumnChoices == {<<"a">>, <<"a", "b">>, <<"b", "a">>}

\* a column with a NaN is float64; an encoded categorical column is int64
DtypeChoices ==
  {[c \in ColSet |-> "float64"],
   [c \in ColSet |-> IF c = "b" THEN "int64" ELSE "float64"]}

Init ==
  /\ missing_columns \in MissingColumnChoices
  /\ dtype \in DtypeChoices
  /\ rng \in 1..MaxSeed
  /\ tie_order \in {"first", "last"}
  /\ \E n \in {0, SmallPool, BigPool} : \E classes \in {1, 2} :
       \E chosen \in SUBSET (1..Len(Masks)) :
         /\ Cardinality(chosen) <= MaxMissing
         /\ \A m \in chosen : \A c \in Masks[m] : dtype[c] = "float64"
         /\ df = Frame(n, classes, chosen)
  /\ pc = "start"
  /\ df_missing = <<>> /\ df_filled = <<>> /\ test_ind = 0 /\ best_ks = <<>>
  /\ ci = 0 /\ temp_df = <<>> /\ rep = 0 /\ RSS = <<>> /\ scores = <<>>
  /\ best_k = 0 /\ df_final = <<>> /\ listings_clean = <<>> /\ err = ""

\* ----------------------------------------------------------- the actions
\* KNN_fill, the rows before the loop
Partition ==
  /\ pc = "start"
  /\ df_missing' = SelectSeq(df, RowHasNull)
  /\ df_filled' = SelectSeq(df, LAMBDA r : ~RowHasNull(r))
  /\ test_ind' = TestInd(Len(df_filled'))
  /\ best_ks' = <<>>
  /\ pc' = "column"
  /\ UNCHANGED <<df, missing_columns, dtype, rng, tie_order, ci, temp_df, rep, RSS, scores,
                 best_k, df_final, listings_clean, err>>

\* the head of the loop over missing_columns and the placeholder fill
Fill ==
  /\ pc = "column"
  /\ ci < Len(missing_columns)
  /\ temp_df' = PlaceholderFilled(df_missing, missing_columns[ci + 1], missing_columns)
  /\ rep' = 0
  /\ RSS' = <<>>
  /\ scores' = <<>>
  /\ pc' = "cv"
  /\ UNCHANGED <<df, missing_columns, dtype, rng, tie_order, df_missing, df_filled, test_ind,
                 best_ks, ci, best_k, df_final, listings_clean, err>>

\* one pass of the loop over the candidate neighbour counts
Candidate ==
  /\ pc = "cv"
  /\ rep < Reps
  /\ Len(RSS) + Len(scores) < Len(Grid)
  /\ LET column == missing_columns[ci + 1]
         k == Grid[Len(RSS) + Len(scores) + 1]
         df_shuffled == sample(df_filled, rng)
         df_test == SubSeq(df_shuffled, 1, test_ind)
         df_train == SubSeq(df_shuffled, test_ind + 1, Len(df_shuffled))
         e == knn_error(df_test, df_train, column, k)
         p == knn_predict(df_test, df_train, column, k, dtype[column])
     IN /\ rng' = NextRng(rng)
        /\ IF e # ""
           THEN /\ err' = e
                /\ pc' = "error"
                /\ UNCHANGED <<RSS, scores>>
           ELSE /\ IF dtype[column] = "float64"
                   THEN /\ RSS' = Append(RSS, MSE(p, df_test, column))
                        /\ UNCHANGED scores
                   ELSE /\ scores' = Append(scores, accuracy_score(p, df_test, column))
                        /\ UNCHANGED RSS
                /\ UNCHANGED <<pc, err>>
  /\ UNCHANGED <<df, missing_columns, dtype, tie_order, df_missing, df_filled, test_ind, best_ks,
                 ci, temp_df, rep, best_k, df_final, listings_clean>>

\* the end of one repetition: the position of the best score is recorded
Record ==
  /\ pc = "cv"
  /\ rep < Reps
  /\ Len(RSS) + Len(scores) = Len(Grid)
  /\ best_ks' = Append(best_ks,
                       IF dtype[missing_columns[ci + 1]] = "float64"
                       THEN argmin(RSS) + 1 ELSE argmax(scores) + 1)
  /\ rep' = rep + 1
  /\ RSS' = <<>>
  /\ scores' = <<>>
  /\ UNCHANGED <<pc, df, missing_columns, dtype, rng, tie_order, df_missing, df_filled, test_ind,
                 ci, temp_df, best_k, df_final, listings_clean, err>>

\* the final model of the column with the imputed rows joining the pool
Predict_pool_grows ==
  /\ pc = "cv"
  /\ rep = Reps
  /\ LET column == missing_columns[ci + 1]
         k == MeanInt(best_ks)
         e == knn_error(temp_df, df_filled, column, k)
     IN /\ best_k' = k
        /\ IF e # ""
           THEN /\ err' = e
                /\ pc' = "error"
                /\ UNCHANGED <<df_missing, df_filled, ci>>
           ELSE /\ df_missing' = KNN_predict(df_missing, temp_df, df_filled, column, k,
                                             dtype[column])
                /\ df_filled' = df_filled \o df_missing'
                /\ ci' = ci + 1
                /\ pc' = "column"
                /\ UNCHANGED err
  /\ UNCHANGED <<df, missing_columns, dtype, rng, tie_order, test_ind, best_ks,
                 temp_df, rep, RSS, scores, df_final, listings_clean>>

\* the mean of best_ks and the final model of the column
Predict ==
  /\ pc = "cv"
  /\ rep = Reps
  /\ LET column == missing_columns[ci + 1]
         k == MeanInt(best_ks)
         e == knn_error(temp_df, df_filled, column, k)
     IN /\ best_k' = k
        /\ IF e # ""
           THEN /\ err' = e
                /\ pc' = "error"
                /\ UNCHANGED <<df_missing, ci>>
           ELSE /\ df_missing' = KNN_predict(df_missing, temp_df, df_filled, column, k,
                                             dtype[column])
                /\ ci' = ci + 1
                /\ pc' = "column"
                /\ UNCHANGED err
  /\ UNCHANGED <<df, missing_columns, dtype, rng, tie_order, df_filled, test_ind, best_ks,
                 temp_df, rep, RSS, scores, df_final, listings_clean>>

\* the return indented into the loop: it runs after the first column
Return_in_loop ==
  /\ pc = "column"
  /\ ci >= 1
  /\ df_final' = sort_index(df_filled \o df_missing)
  /\ listings_clean' = df_final'
  /\ pc' = "returned"
  /\ UNCHANGED <<df, missing_columns, dtype, rng, tie_order, df_missing, df_filled,
                 test_ind, best_ks, ci, temp_df, rep, RSS, scores, best_k, err>>

\* after the loop: concatenate, sort by index, return
Return ==
  /\ pc = "column"
  /\ ci = Len(missing_columns)
  /\ df_final' = sort_index(df_filled \o df_missing)
  /\ listings_clean' = df_final'
  /\ pc' = "returned"
  /\ UNCHANGED <<df, missing_columns, dtype, rng, tie_order, df_missing, df_filled, test_ind,
                 best_ks, ci, temp_df, rep, RSS, scores, best_k, err>>

\* the rounding cell
Round ==
  /\ pc = "returned"
  /\ listings_clean' = RoundFrom(listings_clean, missing_columns, 1)
  /\ pc' = "rounded"
  /\ UNCHANGED <<df, missing_columns, dtype, rng, tie_order, df_missing, df_filled, test_ind,
                 best_ks, ci, temp_df, rep, RSS, scores, best_k, df_final, err>>

\* the rounding cell run a second time on the frame it has rounded
RoundAgain ==
  /\ pc = "rounded"
  /\ listings_clean' = RoundFrom(listings_clean, missing_columns, 1)
  /\ pc' = "rounded_twice"
  /\ UNCHANGED <<df, missing_columns, dtype, rng, tie_order, df_missing, df_filled, test_ind,
                 best_ks, ci, temp_df, rep, RSS, scores, best_k, df_final, err>>

Next ==
  Partition \/ Fill \/ Candidate \/ Record \/ Predict \/ Return \/ Round \/ RoundAgain

Spec == Init /\ [][Next]_vars

\* ------------------------------------------------------------ the claims
Returned == pc \in {"returned", "rounded", "rounded_twice"}
MissingSet == {missing_columns[i] : i \in 1..Len(missing_columns)}
Labels(f) == {f[i].idx : i \in 1..Len(f)}
RowAt(f, l) == CHOOSE r \in {f[i] : i \in 1..Len(f)} : r.idx = l
InputHasNull(c) == \E i \in 1..Len(df) : isnull(df[i].v[c])
LibraryErrors == {"fit: 0 samples", "predict: 0 samples", "predict: NaN",
                  "predict: n_neighbors"}

\* C1: when KNN_fill has returned, no MissingSet column of the returned frame
\* (nor of the rounded frame) holds a missing value in any row.
C1_NoMissingValueLeft ==
  Returned =>
    \A c \in MissingSet :
      /\ \A i \in 1..Len(df_final) : ~isnull(df_final[i].v[c])
      /\ \A i \in 1..Len(listings_clean) : ~isnull(listings_clean[i].v[c])

C1_Witness ==
  /\ pc = "returned"
  /\ Len(missing_columns) = 2
  /\ \A c \in MissingSet : InputHasNull(c)

\* C2: after KNN_fill and after the rounding cell, every column outside
\* MissingSet holds in every row the value the input had in that row.
C2_OtherColumnsUnchanged ==
  Returned =>
    \A i \in 1..Len(listings_clean) : \A c \in ColSet \ MissingSet :
      /\ listings_clean[i].v[c] = RowAt(df, listings_clean[i].idx).v[c]
      /\ df_final[i].v[c] = RowAt(df, df_final[i].idx).v[c]

C2_Witness ==
  /\ pc = "rounded"
  /\ listings_clean # df_final
  /\ \E i \in 1..Len(df) : \E c \in ColSet \ MissingSet :
       RowHasNull(df[i]) /\ df[i].v[c] % Scale # 0

\* C3: from the partition on, the labels of the two subsets partition the
\* labels of the input; the returned frame has the input's length, the
\* input's labels in the input's order, ascending, each once.
C3_RowsAndOrderKept ==
  /\ pc # "start" =>
       /\ Labels(df_missing) \cap Labels(df_filled) = {}
       /\ Labels(df_missing) \cup Labels(df_filled) = Labels(df)
       /\ Len(df_missing) + Len(df_filled) = Len(df)
  /\ Returned =>
       /\ Len(df_final) = Len(df)
       /\ \A i \in 1..Len(df) : df_final[i].idx = df[i].idx
       /\ \A i \in 1..Len(df) : \A j \in 1..Len(df) :
            i < j => df_final[i].idx < df_final[j].idx

C3_Witness ==
  /\ pc = "returned"
  /\ ci = 2
  /\ Len(df_missing) = 2
  /\ \E i \in 1..Len(df_filled) : df_filled[i].idx < df_missing[2].idx

\* C4 as claimed: every row is in exactly one subset, and it is in the missing
\* subset exactly when a MissingSet column is missing in it.
C4_PartitionByMissingSet ==
  pc # "start" =>
    \A i \in 1..Len(df) :
      /\ (df[i].idx \in Labels(df_missing)) # (df[i].idx \in Labels(df_filled))
      /\ (df[i].idx \in Labels(df_missing)) <=> (\E c \in MissingSet : isnull(df[i].v[c]))

\* C4 as amended: every row is in exactly one subset, and it is in the missing
\* subset exactly when some column, of MissingSet or not, is missing in it.
C4_PartitionByAnyColumn ==
  pc # "start" =>
    \A i \in 1..Len(df) :
      /\ (df[i].idx \in Labels(df_missing)) # (df[i].idx \in Labels(df_filled))
      /\ (df[i].idx \in Labels(df_missing)) <=> (\E c \in ColSet : isnull(df[i].v[c]))

C4_Witness ==
  /\ pc = "column"
  /\ ci = 0
  /\ \E i \in 1..Len(df_missing) :
       /\ \A c \in MissingSet : ~isnull(df_missing[i].v[c])
       /\ \E c \in ColSet \ MissingSet : isnull(df_missing[i].v[c])
  /\ \E i \in 1..Len(df_missing) : \E c \in MissingSet : isnull(df_missing[i].v[c])

\* C5: in every iteration, after the placeholder fill, the target column of
\* the filled copy equals the target column of the missing-row frame, entry by
\* entry: missing entries still missing, observed entries unchanged.
C5_FillKeepsTarget ==
  pc = "cv" =>
    /\ Len(temp_df) = Len(df_missing)
    /\ \A i \in 1..Len(df_missing) :
         temp_df[i].v[missing_columns[ci + 1]] = df_missing[i].v[missing_columns[ci + 1]]

C5_Witness ==
  /\ pc = "cv"
  /\ temp_df # df_missing
  /\ \E i \in 1..Len(df_missing) : isnull(temp_df[i].v[missing_columns[ci + 1]])
  /\ \E i \in 1..Len(df_missing) : ~isnull(temp_df[i].v[missing_columns[ci + 1]])

\* C6 as claimed: in a row of the missing subset, a MissingSet column that was
\* observed in the input has the input's value in the returned frame.
C6_ObservedTargetKept ==
  Returned =>
    \A i \in 1..Len(df) : \A t \in MissingSet :
      (RowHasNull(df[i]) /\ ~isnull(df[i].v[t])) =>
        RowAt(df_final, df[i].idx).v[t] = df[i].v[t]

\* C7: a frame is returned only without an error, after every column of
\* MissingSet has had its ten repetitions and its final model, in order; a run
\* that raised returns nothing and takes no further step.
C7_AllOrNothing ==
  /\ Returned =>
       /\ err = ""
       /\ ci = Len(missing_columns)
       /\ Len(best_ks) = Reps * Len(missing_columns)
       /\ Labels(df_final) = Labels(df)
  /\ ~Returned => df_final = <<>> /\ listings_clean = <<>>
  /\ (pc = "error") <=> (err # "")
  /\ pc = "error" => ~ENABLED Next
  /\ Len(best_ks) <= Reps * (ci + 1)
  /\ Len(best_ks) >= Reps * ci \/ pc = "start"

C7_Witness ==
  /\ pc = "error"
  /\ err = "predict: NaN"
  /\ Len(missing_columns) = 2
  /\ Len(best_ks) = Reps

\* C8 as claimed: a categorical target with one class in the fully-observed
\* pool never gets predictions.
C8_OneClassNeverPredicted ==
  \A j \in 1..Len(missing_columns) :
    (pc # "start" /\ dtype[missing_columns[j]] = "int64"
       /\ OneClass(df_filled, missing_columns[j])) => ci < j

\* C8 as amended: for a categorical target with one class in the pool the
\* classifier is fit without an error of its own, every repetition records grid
\* position 1, and every prediction for the column is that one class.
C8_OneClassPredicted ==
  \A j \in 1..Len(missing_columns) :
    (pc # "start" /\ dtype[missing_columns[j]] = "int64"
       /\ OneClass(df_filled, missing_columns[j])) =>
      /\ j <= ci =>
           \A i \in 1..Len(df_missing) :
             df_missing[i].v[missing_columns[j]] = df_filled[1].v[missing_columns[j]]
      /\ \A i \in 1..Len(best_ks) :
           (Reps * (j - 1) < i /\ i <= Reps * j) => best_ks[i] = 1
      /\ pc = "error" => err \in LibraryErrors

C8_Witness ==
  /\ pc = "returned"
  /\ \E j \in 1..Len(missing_columns) :
       /\ dtype[missing_columns[j]] = "int64"
       /\ OneClass(df_filled, missing_columns[j])
       /\ \E i \in 1..Len(df) :
            /\ RowHasNull(df[i])
            /\ df[i].v[missing_columns[j]] # df_filled[1].v[missing_columns[j]]

\* C9: when the fully-observed subset is empty or floor(0.3 * size) is 0, the
\* run raises in the first candidate of the first repetition of the first
\* column: no score and no grid position is ever recorded and the missing-row
\* frame is never written.
C9_DegeneratePoolAborts ==
  (pc # "start" /\ (3 * Len(df_filled)) \div 10 = 0) =>
    /\ pc \in {"column", "cv", "error"}
    /\ ci = 0 /\ rep = 0
    /\ RSS = <<>> /\ scores = <<>> /\ best_ks = <<>>
    /\ df_missing = SelectSeq(df, RowHasNull)
    /\ pc = "error" => err \in {"fit: 0 samples", "predict: 0 samples"}

C9_Witness ==
  /\ pc = "error"
  /\ Len(df_filled) = SmallPool
  /\ test_ind = 0
  /\ Len(df_missing) > 0
  /\ err = "predict: 0 samples"

\* C10 as claimed: with one MissingSet column and no missing value anywhere
\* (and a pool on which every candidate can be fit) the run does not raise,
\* and what it returns is the input.
C10_NothingToFillCompletes ==
  (Len(missing_columns) = 1 /\ Len(df) >= BigPool
     /\ \A i \in 1..Len(df) : ~RowHasNull(df[i])) =>
    /\ pc # "error"
    /\ Returned => df_final = df

\* C11: after the rounding cell every cell of every MissingSet column is an
\* integer, and running the cell again on the rounded frame changes nothing.
C11_RounderIdempotent ==
  /\ [](pc \in {"rounded", "rounded_twice"} =>
          \A i \in 1..Len(listings_clean) : \A c \in MissingSet :
            ~isnull(listings_clean[i].v[c]) /\ listings_clean[i].v[c] % Scale = 0)
  /\ [][pc = "rounded" => listings_clean' = listings_clean]_vars

C11_Witness ==
  /\ pc = "rounded_twice"
  /\ \E i \in 1..Len(df_final) : \E c \in MissingSet : df_final[i].v[c] % Scale # 0
  /\ \E i \in 1..Len(df_final) : \E c \in MissingSet : 2 * (df_final[i].v[c] % Scale) = Scale

\* C13 as claimed: the neighbour count of the final model of a column is the
\* truncated mean of the ten grid positions recorded in that column's own
\* repetitions.
C13_MeanOfOwnPositions ==
  (pc \in {"column", "returned", "rounded", "rounded_twice"} /\ ci >= 1) =>
    /\ Len(best_ks) >= Reps * ci
    /\ best_k = MeanInt(SubSeq(best_ks, Reps * (ci - 1) + 1, Reps * ci))

\* C14: the target of an iteration is the next column of missing_columns; in
\* the frame given to its final model every column at an earlier position
\* holds what the missing-row frame holds, which is what that column's own
\* iteration predicted (no later step rewrites it), and every column at a later
\* position holds the input's cell where it was observed and the median of the
\* column over the missing-row frame where it is still missing; the
\* missing-row frame itself never holds a placeholder.
C14_PredictionsAccumulate ==
  /\ [](pc = "cv" =>
          \A j \in 1..Len(missing_columns) : \A r \in 1..Len(temp_df) :
            /\ j < ci + 1 =>
                 /\ ~isnull(temp_df[r].v[missing_columns[j]])
                 /\ temp_df[r].v[missing_columns[j]] = df_missing[r].v[missing_columns[j]]
            /\ j > ci + 1 =>
                 temp_df[r].v[missing_columns[j]] =
                   IF isnull(df_missing[r].v[missing_columns[j]])
                   THEN median(Column(df_missing, missing_columns[j]))
                   ELSE RowAt(df, temp_df[r].idx).v[missing_columns[j]])
  /\ [](pc # "start" =>
          \A j \in 1..Len(missing_columns) : \A r \in 1..Len(df_missing) :
            j > ci => df_missing[r].v[missing_columns[j]]
                        = RowAt(df, df_missing[r].idx).v[missing_columns[j]])
  /\ [][\A j \in 1..ci : \A r \in 1..Len(df_missing) :
          df_missing'[r].v[missing_columns[j]] = df_missing[r].v[missing_columns[j]]]_vars

C14_Witness ==
  /\ pc = "cv"
  /\ ci = 1
  /\ Len(temp_df) = 2
  /\ \E r \in 1..Len(temp_df) :
       /\ isnull(RowAt(df, temp_df[r].idx).v[missing_columns[1]])
       /\ isnull(RowAt(df, temp_df[r].idx).v[missing_columns[2]])
       /\ temp_df[r].v[missing_columns[1]] % Scale # 0

\* C15: from the partition on, the training pool is the rows of the input
\* without a missing value, in the input's order; no step changes it, the final
\* model of a column (the Predict step) reads that pool, and the frame returned
\* by KNN_fill holds each of its rows under its label with every cell as in
\* the input.
C15_PoolFixedOnce ==
  /\ [](pc # "start" => df_filled = SelectSeq(df, LAMBDA r : ~RowHasNull(r)))
  /\ [][pc # "start" => df_filled' = df_filled]_vars
  /\ [](pc \in {"returned", "rounded", "rounded_twice"} =>
          \A i \in 1..Len(df_filled) :
            /\ df_filled[i].idx \in Labels(df_final)
            /\ RowAt(df_final, df_filled[i].idx) = df_filled[i]
            /\ RowAt(df_final, df_filled[i].idx) = RowAt(df, df_filled[i].idx))

C15_Witness ==
  /\ pc = "returned"
  /\ ci = 2
  /\ Len(df_filled) = BigPool
  /\ Len(df_missing) = 2
  /\ df_final # df_filled \o df_missing

\* C16 as claimed: the test set is the first floor(0.3 * n) rows of the
\* permutation, and within one repetition the candidate scored next is scored
\* on the same permutation, hence the same test and training rows, as the
\* candidate scored now.
C16_OneSplitPerRepetition ==
  /\ [](pc # "start" => test_ind = (3 * Len(df_filled)) \div 10)
  /\ [][(pc = "cv" /\ pc' = "cv" /\ rep < Reps
           /\ Len(RSS) + Len(scores) < Len(RSS') + Len(scores')
           /\ Len(RSS') + Len(scores') < Len(Grid))
          => sample(df_filled, rng') = sample(df_filled, rng)]_vars

\* C17 as claimed: in the frame left by the placeholder fill for the target,
\* no MissingSet column other than the target has a missing entry, and each
\* entry missing in the missing-row frame holds the median of its column over
\* the missing-row frame.
C17_FeatureFrameComplete ==
  pc = "cv" =>
    \A c \in MissingSet \ {missing_columns[ci + 1]} : \A i \in 1..Len(temp_df) :
      /\ ~isnull(temp_df[i].v[c])
      /\ isnull(df_missing[i].v[c]) => temp_df[i].v[c] = median(Column(df_missing, c))

====
